---- MODULE Spec2Model ----
(***************************************************************************)
(* Dependency reasoning and decomposition engine of auto_normalization:    *)
(* fd_algorithms.py (closure, keys, minimal cover), analyzer.py (normal    *)
(* form checks) and decomposition.py (2NF / 3NF / BCNF / 4NF).             *)
(*                                                                         *)
(* Attributes are the integers 1..NumAttrs (Attribute equality and hashing *)
(* are by name only, models.py:26-32).  A dependency is a record           *)
(* [det, dep] of attribute sets, a relation a record [attrs, fds, mvds].   *)
(* Python iterates a set in hash order; the model fixes one iteration      *)
(* order per run, the permutation `ord`, and every set-to-list conversion  *)
(* of the code follows it.                                                 *)
(***************************************************************************)
EXTENDS Integers, Sequences, FiniteSets, Bags, TLC

\* ------------------------------------------------------------------ bounds
NumAttrs == 4   \* attributes of the input relation
MaxFDs == 2     \* functional dependencies of the input relation
MaxMVDs == 1    \* multivalued dependencies of the input relation
MaxOccur == 5   \* attribute occurrences in all dependencies of the input together
MaxSplits == 3  \* steps after which the work-list of decompose_to_4nf is abandoned

Attrs == 1..NumAttrs
NonEmptySubsets == (SUBSET Attrs) \ {{}}

VARIABLES
    ord,      \* iteration order of attribute sets (a permutation of Attrs)
    relation, \* the input Relation: [attrs, fds, mvds]
    op,       \* operation under way: "none", "cover", "2nf", "3nf", "bcnf", "4nf"
    pc,       \* position: "idle", "loop", "mvdloop", "group", "key", "prune",
              \* "check", "bcnf_done", "done"
    work,     \* work-list of relations (current_relations / to_process)
    final,    \* relations finished so far (all_decomposed / final_relations)
    steps,    \* DecompositionStep list
    result,   \* NormalizationResult of the finished call
    cover,    \* value returned by minimal_cover (minimal_fds in decompose_to_3nf)
    out       \* value returned by the key search, the analyzer or closure

vars == <<ord, relation, op, pc, work, final, steps, result, cover, out>>

\* ------------------------------------------------------- sequence helpers
RECURSIVE SeqToSet(_)
SeqToSet(s) == IF s = <<>> THEN {} ELSE {Head(s)} \cup SeqToSet(Tail(s))

RECURSIVE FlattenSeq(_)
FlattenSeq(ss) == IF ss = <<>> THEN <<>> ELSE Head(ss) \o FlattenSeq(Tail(ss))

RemoveAt(s, i) == SubSeq(s, 1, i - 1) \o SubSeq(s, i + 1, Len(s))

InSeq(x, s) == \E i \in 1..Len(s) : s[i] = x

\* list(S) / iteration over a Python set S: the elements of S in `ord` order
ToList(S, o) == SelectSeq(o, LAMBDA a : a \in S)

\* itertools.combinations(list, r): the r-subsets in lexicographic position order
RECURSIVE WithFirst(_, _)
WithFirst(x, cs) ==
    IF cs = <<>> THEN <<>> ELSE << {x} \cup Head(cs) >> \o WithFirst(x, Tail(cs))

RECURSIVE combinations(_, _)
combinations(l, r) ==
    IF r = 0 THEN << {} >>
    ELSE IF Len(l) < r THEN <<>>
    ELSE WithFirst(Head(l), combinations(Tail(l), r - 1)) \o combinations(Tail(l), r)

\* for r in range(lo, hi + 1): for combo in combinations(l, r)
RECURSIVE CombosUpTo(_, _, _)
CombosUpTo(l, lo, hi) ==
    IF lo > hi THEN <<>> ELSE combinations(l, lo) \o CombosUpTo(l, lo + 1, hi)

\* ----------------------------------------------------------- models.py
FD(det, dep) == [det |-> det, dep |-> dep]

\* variant of is_trivial that holds for no FD
is_trivialNever(fd) == FALSE

is_trivial(fd) == fd.dep \subseteq fd.det

Relation(attrs, fds, mvds) == [attrs |-> attrs, fds |-> fds, mvds |-> mvds]

\* NormalForm values are compared as Python strings (decomposition.py:24,
\* 112, 212); each value is kept as its sequence of Unicode code points.
UNNORMALIZED == <<1053, 1077, 1085, 1086, 1088, 1084, 1072, 1083, 1080, 1079,
                  1086, 1074, 1072, 1085, 1085, 1072, 1103>>
FIRST_NF == <<49, 1053, 1060>>
SECOND_NF == <<50, 1053, 1060>>
THIRD_NF == <<51, 1053, 1060>>
BCNF == <<1053, 1060, 1041, 1050>>
FOURTH_NF == <<52, 1053, 1060>>

\* Python str >= : lexicographic on code points, a proper prefix is smaller
RECURSIVE StrGE(_, _)
StrGE(a, b) ==
    IF b = <<>> THEN TRUE
    ELSE IF a = <<>> THEN FALSE
    ELSE IF Head(a) # Head(b) THEN Head(a) > Head(b)
    ELSE StrGE(Tail(a), Tail(b))

\* ------------------------------------------------------ fd_algorithms.py
\* variant of closurePass that applies an FD only when its determinant is the
\* whole set reached so far
RECURSIVE closurePassExact(_, _)
closurePassExact(c, fds) ==
    IF fds = <<>> THEN c
    ELSE closurePassExact(IF Head(fds).det = c THEN c \cup Head(fds).dep ELSE c,
                          Tail(fds))

\* one pass of the for loop over fds
RECURSIVE closurePass(_, _)
closurePass(c, fds) ==
    IF fds = <<>> THEN c
    ELSE closurePass(IF Head(fds).det \subseteq c THEN c \cup Head(fds).dep ELSE c,
                     Tail(fds))

\* variant of closure that makes a single pass over fds
closureOnePass(attributes, fds) == closurePass(attributes, fds)

RECURSIVE closure(_, _)
closure(attributes, fds) ==
    LET c == closurePass(attributes, fds)
    IN IF c = attributes THEN attributes ELSE closure(c, fds)

is_superkey(attributes, rel) == closure(attributes, rel.fds) = rel.attrs

\* variant of KeepMinimal that keeps every superkey
RECURSIVE KeepMinimalAny(_, _, _)
KeepMinimalAny(cands, rel, keys) ==
    IF cands = <<>> THEN keys
    ELSE KeepMinimalAny(Tail(cands), rel,
             IF is_superkey(Head(cands), rel) THEN Append(keys, Head(cands)) ELSE keys)

\* keeps a combo when it is a superkey and no key found so far is inside it
RECURSIVE KeepMinimal(_, _, _)
KeepMinimal(cands, rel, keys) ==
    IF cands = <<>> THEN keys
    ELSE LET c == Head(cands)
         IN KeepMinimal(Tail(cands), rel,
                IF is_superkey(c, rel) /\ \A i \in 1..Len(keys) : ~(keys[i] \subseteq c)
                THEN Append(keys, c) ELSE keys)

find_candidate_keys(rel, o) ==
    LET lefts == UNION {rel.fds[i].det : i \in 1..Len(rel.fds)}
        rights == UNION {rel.fds[i].dep : i \in 1..Len(rel.fds)}
        both_sides == lefts \cap rights
        left_only == lefts \ both_sides
        right_only == rights \ both_sides
        not_in_fds == ((rel.attrs \ left_only) \ right_only) \ both_sides
        must_have == left_only \cup not_in_fds
        bl == ToList(both_sides, o)
        cs == CombosUpTo(bl, 0, Len(bl))
    IN IF is_superkey(must_have, rel) THEN << must_have >>
       ELSE KeepMinimal([i \in 1..Len(cs) |-> must_have \cup cs[i]], rel, <<>>)

\* variant of AllKeysFold that keeps every superkey
RECURSIVE AllKeysFoldAny(_, _, _)
AllKeysFoldAny(cands, rel, keys) ==
    IF cands = <<>> THEN keys
    ELSE AllKeysFoldAny(Tail(cands), rel,
             IF is_superkey(Head(cands), rel) THEN Append(keys, Head(cands)) ELSE keys)

\* the combination loop of find_all_keys: a superkey that contains no key found
\* so far replaces the keys found so far that contain it
RECURSIVE AllKeysFold(_, _, _)
AllKeysFold(cands, rel, keys) ==
    IF cands = <<>> THEN keys
    ELSE LET attr_set == Head(cands)
             is_minimal == \A i \in 1..Len(keys) : ~(keys[i] \subseteq attr_set)
         IN AllKeysFold(Tail(cands), rel,
                IF is_superkey(attr_set, rel) /\ is_minimal
                THEN Append(SelectSeq(keys, LAMBDA k : ~(attr_set \subseteq k)), attr_set)
                ELSE keys)

find_all_keys(rel, o) ==
    LET l == ToList(rel.attrs, o)
        keys == AllKeysFold(CombosUpTo(l, 1, Len(l)), rel, <<>>)
    IN IF keys # <<>> THEN keys ELSE << rel.attrs >>

\* step 1 of minimal_cover: one FD per dependent attribute
SplitFD(fd, o) ==
    LET dl == ToList(fd.dep, o) IN [i \in 1..Len(dl) |-> FD(fd.det, {dl[i]})]

\* ReduceDet with the attribute loop left after its first iteration
ReduceDetFirstOnly(todo, minimal_det, dep, split_fds) ==
    LET test_det == minimal_det \ {Head(todo)}
    IN IF test_det # {} /\ dep \subseteq closure(test_det, split_fds)
       THEN test_det ELSE minimal_det

\* step 2 of minimal_cover for one FD: try to drop each determinant attribute
RECURSIVE ReduceDet(_, _, _, _)
ReduceDet(todo, minimal_det, dep, split_fds) ==
    IF todo = <<>> THEN minimal_det
    ELSE LET test_det == minimal_det \ {Head(todo)}
         IN ReduceDet(Tail(todo),
                IF test_det # {} /\ dep \subseteq closure(test_det, split_fds)
                THEN test_det ELSE minimal_det,
                dep, split_fds)

\* step 3 of minimal_cover: an FD stays unless the other reduced FDs derive it
KeepFD(reduced_fds, i) ==
    ~(reduced_fds[i].dep \subseteq closure(reduced_fds[i].det, RemoveAt(reduced_fds, i)))

minimal_cover(fds, o) ==
    LET split_fds == FlattenSeq([i \in 1..Len(fds) |-> SplitFD(fds[i], o)])
        reduced_fds == [i \in 1..Len(split_fds) |->
            IF Cardinality(split_fds[i].det) = 1 THEN split_fds[i]
            ELSE FD(ReduceDet(ToList(split_fds[i].det, o), split_fds[i].det,
                              split_fds[i].dep, split_fds),
                    split_fds[i].dep)]
        kept == {i \in 1..Len(reduced_fds) : KeepFD(reduced_fds, i)}
    IN [k \in 1..Cardinality(kept) |->
           reduced_fds[CHOOSE i \in kept : Cardinality({j \in kept : j < i}) = k - 1]]

\* ------------------------------------------------- decomposition.py helpers
\* one iteration of the subset loop of _project_fds
ProjectOne(projected_fds, det_set, attr_set, fds) ==
    LET dependent == closure(det_set, fds) \cap (attr_set \ det_set)
        hits == {i \in 1..Len(projected_fds) :
                    /\ projected_fds[i].det = det_set
                    /\ projected_fds[i].dep \subseteq dependent}
        first == CHOOSE i \in hits : \A j \in hits : i <= j
    IN IF dependent = {} THEN projected_fds
       ELSE IF hits # {}
            THEN [projected_fds EXCEPT ![first].dep = @ \cup dependent]
            ELSE Append(projected_fds, FD(det_set, dependent))

RECURSIVE ProjectFold(_, _, _, _)
ProjectFold(combos, projected_fds, attr_set, fds) ==
    IF combos = <<>> THEN projected_fds
    ELSE ProjectFold(Tail(combos),
                     ProjectOne(projected_fds, Head(combos), attr_set, fds),
                     attr_set, fds)

project_fds(attributes, fds) ==
    ProjectFold(CombosUpTo(attributes, 1, Len(attributes) - 1), <<>>,
                SeqToSet(attributes), fds)

\* variant of check_dependency_preservation that derives each FD from the
\* original FDs instead of the FDs of the decomposed relations
check_dependency_preservationOriginal(original_fds, decomposed_relations) ==
    LET kept(fd) == fd.dep \subseteq closure(fd.det, original_fds)
    IN [preserved |-> SelectSeq(original_fds, kept),
        lost |-> SelectSeq(original_fds, LAMBDA fd : ~kept(fd))]

check_dependency_preservation(original_fds, decomposed_relations) ==
    LET all_decomposed_fds ==
            FlattenSeq([i \in 1..Len(decomposed_relations) |-> decomposed_relations[i].fds])
        kept(fd) == fd.dep \subseteq closure(fd.det, all_decomposed_fds)
    IN [preserved |-> SelectSeq(original_fds, kept),
        lost |-> SelectSeq(original_fds, LAMBDA fd : ~kept(fd))]

\* ------------------------------------------------------------ analyzer.py
NormalFormAnalyzer(rel, o) ==
    LET keys == find_candidate_keys(rel, o)
        prime == UNION {keys[i] : i \in 1..Len(keys)}
    IN [relation |-> rel, candidate_keys |-> keys,
        prime_attributes |-> prime, non_prime_attributes |-> rel.attrs \ prime]

\* a violation message, kept as the values it interpolates
Violation(kind, det, dep, key) == [kind |-> kind, det |-> det, dep |-> dep, key |-> key]

\* the violation list of each check; a check passes iff its list is empty
check_1nf(an) ==
    (IF an.relation.attrs = {} THEN << Violation("no_attributes", {}, {}, {}) >> ELSE <<>>)
    \o (IF \E i \in 1..Len(an.candidate_keys) : an.candidate_keys[i] # {}
        THEN <<>> ELSE << Violation("no_key", {}, {}, {}) >>)

\* the keys an FD partially depends on, in candidate_keys order
PartialKeys(an, fd) ==
    SelectSeq(an.candidate_keys,
              LAMBDA key : Cardinality(key) > 1 /\ fd.det \subseteq key /\ fd.det # key)

Check2nfOne(an, fd) ==
    LET dependent_non_prime == fd.dep \cap an.non_prime_attributes
    IN IF is_trivial(fd) \/ dependent_non_prime = {} \/ PartialKeys(an, fd) = <<>>
       THEN <<>>
       ELSE << Violation("partial", fd.det, dependent_non_prime, Head(PartialKeys(an, fd))) >>

\* variant of check_2nf that reports the FDs check_3nf reports
check_2nfTransitive(an) ==
    IF check_1nf(an) # <<>> THEN check_1nf(an)
    ELSE FlattenSeq([i \in 1..Len(an.relation.fds) |->
             IF is_trivial(an.relation.fds[i]) \/ is_superkey(an.relation.fds[i].det, an.relation)
                  \/ (an.relation.fds[i].dep \ an.relation.fds[i].det)
                         \cap an.non_prime_attributes = {}
             THEN <<>>
             ELSE << Violation("partial", an.relation.fds[i].det,
                               an.relation.fds[i].dep \cap an.non_prime_attributes, {}) >>])

check_2nf(an) ==
    IF check_1nf(an) # <<>> THEN check_1nf(an)
    ELSE IF \A i \in 1..Len(an.candidate_keys) : Cardinality(an.candidate_keys[i]) = 1
    THEN <<>>
    ELSE FlattenSeq([i \in 1..Len(an.relation.fds) |-> Check2nfOne(an, an.relation.fds[i])])

Check3nfOne(an, fd) ==
    LET non_prime_in_dependent == (fd.dep \ fd.det) \cap an.non_prime_attributes
    IN IF is_trivial(fd) THEN <<>>
       ELSE IF ~is_superkey(fd.det, an.relation) /\ non_prime_in_dependent # {}
       THEN << Violation("3nf", fd.det, non_prime_in_dependent, {}) >>
       ELSE <<>>

check_3nf(an) ==
    IF check_2nf(an) # <<>> THEN check_2nf(an)
    ELSE FlattenSeq([i \in 1..Len(an.relation.fds) |-> Check3nfOne(an, an.relation.fds[i])])

CheckBcnfOne(an, fd) ==
    IF ~is_trivial(fd) /\ ~is_superkey(fd.det, an.relation)
    THEN << Violation("bcnf", fd.det, fd.dep, {}) >> ELSE <<>>

\* variant of check_bcnf that does nothing beyond its call of check_1nf
check_bcnfOnly1nf(an) == check_1nf(an)

check_bcnf(an) ==
    IF check_1nf(an) # <<>> THEN check_1nf(an)
    ELSE FlattenSeq([i \in 1..Len(an.relation.fds) |-> CheckBcnfOne(an, an.relation.fds[i])])

Check4nfOne(an, mvd) ==
    IF ~is_superkey(mvd.det, an.relation) /\ (an.relation.attrs \ mvd.det) \ mvd.dep # {}
    THEN << Violation("4nf", mvd.det, mvd.dep, {}) >> ELSE <<>>

check_4nf(an) ==
    IF check_bcnf(an) # <<>> THEN check_bcnf(an)
    ELSE FlattenSeq([i \in 1..Len(an.relation.mvds) |-> Check4nfOne(an, an.relation.mvds[i])])

\* variant of determine_normal_form that reports the level whose check failed
determine_normal_formFailed(an) ==
    IF check_1nf(an) # <<>> THEN [form |-> FIRST_NF, violations |-> check_1nf(an)]
    ELSE IF check_2nf(an) # <<>> THEN [form |-> SECOND_NF, violations |-> check_2nf(an)]
    ELSE IF check_3nf(an) # <<>> THEN [form |-> THIRD_NF, violations |-> check_3nf(an)]
    ELSE IF check_bcnf(an) # <<>> THEN [form |-> BCNF, violations |-> check_bcnf(an)]
    ELSE [form |-> FOURTH_NF, violations |-> check_4nf(an)]

determine_normal_form(an) ==
    LET v1 == check_1nf(an)
        v2 == check_2nf(an)
        v3 == check_3nf(an)
    IN IF v1 # <<>> THEN [form |-> UNNORMALIZED, violations |-> v1]
       ELSE IF v2 # <<>>
       THEN [form |-> FIRST_NF, violations |-> SelectSeq(v2, LAMBDA v : ~InSeq(v, v1))]
       ELSE IF v3 # <<>>
       THEN [form |-> SECOND_NF, violations |-> SelectSeq(v3, LAMBDA v : ~InSeq(v, v2))]
       ELSE IF check_bcnf(an) # <<>>
       THEN [form |-> THIRD_NF, violations |-> check_bcnf(an)]
       ELSE IF check_4nf(an) # <<>>
       THEN [form |-> BCNF, violations |-> check_4nf(an)]
       ELSE [form |-> FOURTH_NF, violations |-> <<>>]

\* ------------------------------------------------------ decomposition.py
\* variant of DecompositionStep that records the first resulting relation only
DecompositionStepFirst(original_relation, resulting_relations, violated_dependency) ==
    [original_relation |-> original_relation,
     resulting_relations |-> SubSeq(resulting_relations, 1, 1),
     violated_dependency |-> violated_dependency]

DecompositionStep(original_relation, resulting_relations, violated_dependency) ==
    [original_relation |-> original_relation,
     resulting_relations |-> resulting_relations,
     violated_dependency |-> violated_dependency]

NormalizationResult(original_form, target_form, decomposed_relations, stps, preserved, lost) ==
    [original_form |-> original_form, target_form |-> target_form,
     decomposed_relations |-> decomposed_relations, steps |-> stps,
     preserved_dependencies |-> preserved, lost_dependencies |-> lost]

NoResult == NormalizationResult(<<>>, <<>>, <<>>, <<>>, <<>>, <<>>)

\* the early return shared by decompose_to_2nf / _3nf / _bcnf
NoOpResult(original_form, target_form, rel) ==
    NormalizationResult(original_form, target_form, << rel >>, <<>>, rel.fds, <<>>)

\* variant of partial_deps that looks at the first FD of the list only
partial_depsFirstFD(rel, an) ==
    SelectSeq(IF rel.fds = <<>> THEN <<>> ELSE << rel.fds[1] >>, LAMBDA fd :
        /\ fd.dep \cap an.non_prime_attributes # {}
        /\ \E i \in 1..Len(an.candidate_keys) :
              fd.det \subseteq an.candidate_keys[i] /\ fd.det # an.candidate_keys[i])

\* partial_deps of decompose_to_2nf: the FDs with a non-prime dependent whose
\* determinant is a proper subset of some candidate key
partial_deps(rel, an) ==
    SelectSeq(rel.fds, LAMBDA fd :
        /\ fd.dep \cap an.non_prime_attributes # {}
        /\ \E i \in 1..Len(an.candidate_keys) :
              fd.det \subseteq an.candidate_keys[i] /\ fd.det # an.candidate_keys[i])

\* variant of Split2NF whose second relation carries no FDs
Split2NFNoFDs(rel, fd, o) ==
    LET r1_attrs == ToList(fd.det \cup fd.dep, o)
        r2_attrs == ToList(rel.attrs \ fd.dep, o)
    IN << Relation(SeqToSet(r1_attrs), project_fds(r1_attrs, rel.fds), <<>>),
          Relation(SeqToSet(r2_attrs), <<>>, <<>>) >>

\* the pair produced by a 2NF split on fd
Split2NF(rel, fd, o) ==
    LET r1_attrs == ToList(fd.det \cup fd.dep, o)
        r2_attrs == ToList(rel.attrs \ fd.dep, o)
    IN << Relation(SeqToSet(r1_attrs), project_fds(r1_attrs, rel.fds), <<>>),
          Relation(SeqToSet(r2_attrs), project_fds(r2_attrs, rel.fds), <<>>) >>

\* variant of violating_fds that looks at the first FD of the list only
violating_fdsFirstFD(rel) ==
    SelectSeq(IF rel.fds = <<>> THEN <<>> ELSE << rel.fds[1] >>, LAMBDA fd : ~is_trivial(fd) /\ ~is_superkey(fd.det, rel))

\* the FDs decompose_to_bcnf regards as violating, in list order
violating_fds(rel) ==
    SelectSeq(rel.fds, LAMBDA fd : ~is_trivial(fd) /\ ~is_superkey(fd.det, rel))

\* variant of SplitBCNF whose second relation drops the whole dependent
SplitBCNFNoDet(rel, fd, o) ==
    LET r1_attrs == ToList(fd.det \cup fd.dep, o)
        r2_attrs == ToList(rel.attrs \ fd.dep, o)
    IN << Relation(SeqToSet(r1_attrs), project_fds(r1_attrs, rel.fds), <<>>),
          Relation(SeqToSet(r2_attrs), project_fds(r2_attrs, rel.fds), <<>>) >>

\* variant of SplitBCNF whose second relation keeps every attribute
SplitBCNFKeepAll(rel, fd, o) ==
    LET r1_attrs == ToList(fd.det \cup fd.dep, o)
        r2_attrs == ToList(rel.attrs, o)
    IN << Relation(SeqToSet(r1_attrs), project_fds(r1_attrs, rel.fds), <<>>),
          Relation(SeqToSet(r2_attrs), project_fds(r2_attrs, rel.fds), <<>>) >>

\* the pair produced by a BCNF split on fd
SplitBCNF(rel, fd, o) ==
    LET r1_attrs == ToList(fd.det \cup fd.dep, o)
        r2_attrs == ToList(fd.det \cup (rel.attrs \ fd.dep), o)
    IN << Relation(SeqToSet(r1_attrs), project_fds(r1_attrs, rel.fds), <<>>),
          Relation(SeqToSet(r2_attrs), project_fds(r2_attrs, rel.fds), <<>>) >>

\* variant of violating_mvds that asks for the whole dependent inside the
\* relation
violating_mvdsWholeDep(current_rel, mvds) ==
    SelectSeq(mvds, LAMBDA mvd :
        LET independent_in_rel == (current_rel.attrs \ mvd.det) \ mvd.dep
        IN /\ mvd.det \subseteq current_rel.attrs
           /\ mvd.dep \subseteq current_rel.attrs
           /\ independent_in_rel # {}
           /\ ~is_superkey(mvd.det, current_rel))

\* the MVDs of the original relation that decompose_to_4nf regards as
\* violating in current_rel, in list order
violating_mvds(current_rel, mvds) ==
    SelectSeq(mvds, LAMBDA mvd :
        LET dependent_in_rel == mvd.dep \cap current_rel.attrs
            independent_in_rel == (current_rel.attrs \ mvd.det) \ dependent_in_rel
        IN /\ mvd.det \subseteq current_rel.attrs
           /\ dependent_in_rel # {}
           /\ independent_in_rel # {}
           /\ ~is_superkey(mvd.det, current_rel))

Split4NF(current_rel, mvd, o) ==
    LET r1_attrs == ToList(mvd.det \cup (mvd.dep \cap current_rel.attrs), o)
        r2_attrs == ToList(mvd.det \cup (current_rel.attrs \ mvd.dep), o)
    IN << Relation(SeqToSet(r1_attrs), project_fds(r1_attrs, current_rel.fds), <<>>),
          Relation(SeqToSet(r2_attrs), project_fds(r2_attrs, current_rel.fds), <<>>) >>

\* variant of GroupKeys that opens a group for every FD
RECURSIVE GroupKeysEach(_, _)
GroupKeysEach(fds, seen) ==
    IF fds = <<>> THEN seen
    ELSE GroupKeysEach(Tail(fds), Append(seen, Head(fds).det))

\* keys of fd_groups in insertion order
RECURSIVE GroupKeys(_, _)
GroupKeys(fds, seen) ==
    IF fds = <<>> THEN seen
    ELSE GroupKeys(Tail(fds),
                   IF InSeq(Head(fds).det, seen) THEN seen ELSE Append(seen, Head(fds).det))

\* variant of GroupAttrs that puts every dependent into every group
GroupAttrsAll(minimal_fds, d) ==
    d \cup UNION {minimal_fds[i].dep : i \in 1..Len(minimal_fds)}

\* rel_attrs of one group: the determinant and the dependents of its FDs
GroupAttrs(minimal_fds, d) ==
    d \cup UNION {minimal_fds[i].dep :
                    i \in {j \in 1..Len(minimal_fds) : minimal_fds[j].det = d}}

\* step 2 of the synthesis in decompose_to_3nf: one relation per determinant
\* of the minimal cover, in the insertion order of fd_groups
GroupedRelations(minimal_fds, o) ==
    LET dets == GroupKeys(minimal_fds, <<>>)
    IN [g \in 1..Len(dets) |->
           Relation(GroupAttrs(minimal_fds, dets[g]),
                    project_fds(ToList(GroupAttrs(minimal_fds, dets[g]), o), minimal_fds),
                    <<>>)]

\* step 3: a relation on the first candidate key is appended when no relation
\* built so far contains a candidate key
WithKeyRelation(decomposed_relations, rel, candidate_keys, o) ==
    LET has_key == \E g \in 1..Len(decomposed_relations) :
                       \E k \in 1..Len(candidate_keys) :
                           candidate_keys[k] \subseteq decomposed_relations[g].attrs
    IN IF ~has_key /\ candidate_keys # <<>>
       THEN Append(decomposed_relations,
                   Relation(candidate_keys[1],
                            project_fds(ToList(candidate_keys[1], o), rel.fds), <<>>))
       ELSE decomposed_relations

\* step 4: the relations whose attributes lie inside another relation of the
\* list are dropped, the others keep their order
RECURSIVE NonRedundant(_, _)
NonRedundant(decomposed_relations, i) ==
    IF i > Len(decomposed_relations) THEN <<>>
    ELSE LET is_redundant == \E j \in 1..Len(decomposed_relations) :
                 i # j /\ decomposed_relations[i].attrs \subseteq decomposed_relations[j].attrs
         IN (IF is_redundant THEN <<>> ELSE << decomposed_relations[i] >>)
                \o NonRedundant(decomposed_relations, i + 1)

\* ------------------------------------------------------------------- inputs
FDSet == {FD(d, e) : d \in NonEmptySubsets, e \in NonEmptySubsets}

\* attribute occurrences of one dependency and of a dependency list
Occur(fd) == Cardinality(fd.det) + Cardinality(fd.dep)

RECURSIVE OccurAll(_)
OccurAll(fds) == IF fds = <<>> THEN 0 ELSE Occur(Head(fds)) + OccurAll(Tail(fds))

\* the dependencies with at most w attribute occurrences
FDsUpTo == [w \in 0..MaxOccur |-> {fd \in FDSet : Occur(fd) <= w}]

IdOrder == [i \in 1..NumAttrs |-> i]

Init ==
    /\ ord = IdOrder
    /\ relation = Relation(Attrs, <<>>, <<>>)
    /\ op = "none"
    /\ pc = "idle"
    /\ work = <<>>
    /\ final = <<>>
    /\ steps = <<>>
    /\ result = NoResult
    /\ cover = <<>>
    /\ out = <<>>

\* Scenario B: the employee-project relation of create_example_relations,
\* attributes numbered in the order of attrs1
ScenarioBAttrs == 1..7
ScenarioB ==
    Relation(ScenarioBAttrs,
             << FD({1}, {2, 3}), FD({3}, {4}), FD({5}, {6, 7}) >>, <<>>)

\* the orders in which a set of the seven attributes may be iterated
RECURSIVE Orders(_)
Orders(S) ==
    IF S = {} THEN {<<>>}
    ELSE UNION {{<<x>> \o p : p \in Orders(S \ {x})} : x \in S}

InitScenarioB ==
    /\ ord \in Orders(ScenarioBAttrs)
    /\ relation = ScenarioB
    /\ op = "none"
    /\ pc = "idle"
    /\ work = <<>>
    /\ final = <<>>
    /\ steps = <<>>
    /\ result = NoResult
    /\ cover = <<>>
    /\ out = <<>>

\* a relation whose two determinants determine each other and a third
\* attribute: R(1,2,3,4) with {1} -> {2,3} and {2} -> {1,3}
MutualDeps == Relation(Attrs, << FD({1}, {2, 3}), FD({2}, {1, 3}) >>, <<>>)

InitMutual ==
    /\ ord = IdOrder
    /\ relation = MutualDeps
    /\ op = "none"
    /\ pc = "idle"
    /\ work = <<>>
    /\ final = <<>>
    /\ steps = <<>>
    /\ result = NoResult
    /\ cover = <<>>
    /\ out = <<>>

\* the attribute lists a Relation is built with: all attributes, or none
\* (attributes of a Relation default to the empty list)
AttrChoices == {{}, Attrs}

InitAny ==
    /\ ord = IdOrder
    /\ \E a \in AttrChoices : relation = Relation(a, <<>>, <<>>)
    /\ op = "none"
    /\ pc = "idle"
    /\ work = <<>>
    /\ final = <<>>
    /\ steps = <<>>
    /\ result = NoResult
    /\ cover = <<>>
    /\ out = <<>>

\* ------------------------------------------------------------------ actions
\* The caller builds the Relation before it hands it to the engine: each FD and
\* MVD has a non-empty determinant and dependent over the relation's attributes
\* (the input contract; nothing in the engine validates it).
AddFD ==
    /\ pc = "idle"
    /\ relation.mvds = <<>>
    /\ Len(relation.fds) < MaxFDs
    /\ OccurAll(relation.fds) <= MaxOccur
    /\ \E fd \in FDsUpTo[MaxOccur - OccurAll(relation.fds)] :
           /\ fd.det \cup fd.dep \subseteq relation.attrs
           /\ relation' = [relation EXCEPT !.fds = Append(@, fd)]
    /\ UNCHANGED <<ord, op, pc, work, final, steps, result, cover, out>>

AddMVD ==
    /\ pc = "idle"
    /\ Len(relation.mvds) < MaxMVDs
    /\ OccurAll(relation.fds) + OccurAll(relation.mvds) <= MaxOccur
    /\ \E mvd \in FDsUpTo[MaxOccur - OccurAll(relation.fds) - OccurAll(relation.mvds)] :
           /\ mvd.det \cup mvd.dep \subseteq relation.attrs
           /\ relation' = [relation EXCEPT !.mvds = Append(@, mvd)]
    /\ UNCHANGED <<ord, op, pc, work, final, steps, result, cover, out>>

MinimalCover ==
    /\ pc = "idle"
    /\ op' = "cover"
    /\ cover' = minimal_cover(relation.fds, ord)
    /\ pc' = "done"
    /\ UNCHANGED <<ord, relation, work, final, steps, result, out>>

\* find_candidate_keys and the brute-force find_all_keys on the same relation
FindKeys ==
    /\ pc = "idle"
    /\ op' = "keys"
    /\ out' = [candidate_keys |-> find_candidate_keys(relation, ord),
               all_keys |-> find_all_keys(relation, ord)]
    /\ pc' = "done"
    /\ UNCHANGED <<ord, relation, work, final, steps, result, cover>>

\* closure called on an attribute set X, on its own result, and on every
\* attribute set that contains X, with the FD list of the relation
Closure ==
    /\ pc = "idle"
    /\ op' = "closure"
    /\ \E X \in SUBSET Attrs :
           out' = [X |-> X,
                   closure |-> closure(X, relation.fds),
                   again |-> closure(closure(X, relation.fds), relation.fds),
                   above |-> [Y \in {Z \in SUBSET Attrs : X \subseteq Z} |->
                                 closure(Y, relation.fds)]]
    /\ pc' = "done"
    /\ UNCHANGED <<ord, relation, work, final, steps, result, cover>>

\* the iteration orders tried in a second run: the rotations of the first
\* order and its reverse
Reverse(o) == [i \in 1..Len(o) |-> o[Len(o) + 1 - i]]
Rotations(o) == {[i \in 1..Len(o) |-> o[((i + k - 1) % Len(o)) + 1]] : k \in 0..(Len(o) - 1)}
RerunOrders == Rotations(IdOrder) \cup {Reverse(IdOrder)}

\* the same decomposer is called again on the same relation in a run where
\* sets iterate in another order; the first result is kept in out
Rerun ==
    /\ pc = "done"
    /\ op \in {"2nf", "3nf", "bcnf"}
    /\ DOMAIN out = {}
    /\ ord' \in RerunOrders
    /\ out' = [op |-> op, relation |-> relation, result |-> result]
    /\ pc' = "idle"
    /\ UNCHANGED <<relation, op, work, final, steps, result, cover>>

\* an analyzer built on the relation: the five checks and determine_normal_form
Analyze ==
    /\ pc = "idle"
    /\ op' = "analyze"
    /\ LET an == NormalFormAnalyzer(relation, ord)
       IN out' = [candidate_keys |-> an.candidate_keys,
                  check_1nf |-> check_1nf(an),
                  check_2nf |-> check_2nf(an),
                  check_3nf |-> check_3nf(an),
                  check_bcnf |-> check_bcnf(an),
                  check_4nf |-> check_4nf(an),
                  form |-> determine_normal_form(an).form,
                  violations |-> determine_normal_form(an).violations]
    /\ pc' = "done"
    /\ UNCHANGED <<ord, relation, work, final, steps, result, cover>>

Begin2NF ==
    /\ pc = "idle"
    /\ op' = "2nf"
    /\ LET original_form == determine_normal_form(NormalFormAnalyzer(relation, ord)).form
       IN IF StrGE(original_form, SECOND_NF)
          THEN /\ result' = NoOpResult(original_form, SECOND_NF, relation)
               /\ pc' = "done"
               /\ UNCHANGED <<work, final, steps>>
          ELSE /\ result' = [NoResult EXCEPT !.original_form = original_form]
               /\ work' = << relation >>
               /\ final' = <<>>
               /\ steps' = <<>>
               /\ pc' = "loop"
    /\ UNCHANGED <<ord, relation, cover, out>>

Iter2NF ==
    /\ pc = "loop" /\ op = "2nf" /\ work # <<>>
    /\ LET rel == work[Len(work)]
           rest == SubSeq(work, 1, Len(work) - 1)
           pd == partial_deps(rel, NormalFormAnalyzer(rel, ord))
       IN IF pd = <<>>
          THEN /\ final' = Append(final, rel)
               /\ work' = rest
               /\ UNCHANGED steps
          ELSE /\ steps' = Append(steps,
                       DecompositionStep(rel, Split2NF(rel, pd[1], ord), pd[1]))
               /\ work' = rest \o Split2NF(rel, pd[1], ord)
               /\ UNCHANGED final
    /\ UNCHANGED <<ord, relation, op, pc, result, cover, out>>

Finish2NF ==
    /\ pc = "loop" /\ op = "2nf" /\ work = <<>>
    /\ LET p == check_dependency_preservation(relation.fds, final)
       IN result' = NormalizationResult(result.original_form, SECOND_NF, final, steps,
                                        p.preserved, p.lost)
    /\ pc' = "done"
    /\ UNCHANGED <<ord, relation, op, work, final, steps, cover, out>>

\* decompose_to_3nf up to the minimal cover (step 1)
Begin3NF ==
    /\ pc = "idle"
    /\ op' = "3nf"
    /\ LET original_form == determine_normal_form(NormalFormAnalyzer(relation, ord)).form
       IN IF StrGE(original_form, THIRD_NF)
          THEN /\ result' = NoOpResult(original_form, THIRD_NF, relation)
               /\ pc' = "done"
               /\ UNCHANGED <<work, cover>>
          ELSE /\ result' = [NoResult EXCEPT !.original_form = original_form]
               /\ cover' = minimal_cover(relation.fds, ord)
               /\ work' = <<>>
               /\ pc' = "group"
    /\ UNCHANGED <<ord, relation, final, steps, out>>

\* step 2: the relations of the determinant groups
Group3NF ==
    /\ pc = "group" /\ op = "3nf"
    /\ work' = GroupedRelations(cover, ord)
    /\ pc' = "key"
    /\ UNCHANGED <<ord, relation, op, final, steps, result, cover, out>>

\* step 3: the key relation
Key3NF ==
    /\ pc = "key" /\ op = "3nf"
    /\ work' = WithKeyRelation(work, relation,
                               NormalFormAnalyzer(relation, ord).candidate_keys, ord)
    /\ pc' = "prune"
    /\ UNCHANGED <<ord, relation, op, final, steps, result, cover, out>>

\* step 4: redundant relations removed, the single step recorded
Prune3NF ==
    /\ pc = "prune" /\ op = "3nf"
    /\ final' = NonRedundant(work, 1)
    /\ steps' = << DecompositionStep(relation, final', <<>>) >>
    /\ pc' = "check"
    /\ UNCHANGED <<ord, relation, op, work, result, cover, out>>

\* dependency preservation and the return of decompose_to_3nf
Finish3NF ==
    /\ pc = "check" /\ op = "3nf"
    /\ LET p == check_dependency_preservation(relation.fds, final)
       IN result' = NormalizationResult(result.original_form, THIRD_NF, final, steps,
                                        p.preserved, p.lost)
    /\ pc' = "done"
    /\ UNCHANGED <<ord, relation, op, work, final, steps, cover, out>>

\* the entry of decompose_to_bcnf, called directly (o = "bcnf") or as the first
\* statement of decompose_to_4nf (o = "4nf")
BeginBCNF(o) ==
    /\ pc = "idle"
    /\ op' = o
    /\ LET original_form == determine_normal_form(NormalFormAnalyzer(relation, ord)).form
       IN IF StrGE(original_form, BCNF)
          THEN /\ result' = NoOpResult(original_form, BCNF, relation)
               /\ pc' = IF o = "4nf" THEN "bcnf_done" ELSE "done"
               /\ UNCHANGED <<work, final, steps>>
          ELSE /\ result' = [NoResult EXCEPT !.original_form = original_form]
               /\ work' = << relation >>
               /\ final' = <<>>
               /\ steps' = <<>>
               /\ pc' = "loop"
    /\ UNCHANGED <<ord, relation, cover, out>>

IterBCNF ==
    /\ pc = "loop" /\ op \in {"bcnf", "4nf"} /\ work # <<>>
    /\ LET current_rel == work[Len(work)]
           rest == SubSeq(work, 1, Len(work) - 1)
           vf == violating_fds(current_rel)
       IN IF vf = <<>>
          THEN /\ final' = Append(final, current_rel)
               /\ work' = rest
               /\ UNCHANGED steps
          ELSE /\ steps' = Append(steps,
                       DecompositionStep(current_rel, SplitBCNF(current_rel, vf[1], ord), vf[1]))
               /\ work' = rest \o SplitBCNF(current_rel, vf[1], ord)
               /\ UNCHANGED final
    /\ UNCHANGED <<ord, relation, op, pc, result, cover, out>>

FinishBCNF ==
    /\ pc = "loop" /\ op \in {"bcnf", "4nf"} /\ work = <<>>
    /\ LET p == check_dependency_preservation(relation.fds, final)
       IN result' = NormalizationResult(result.original_form, BCNF, final, steps,
                                        p.preserved, p.lost)
    /\ pc' = IF op = "4nf" THEN "bcnf_done" ELSE "done"
    /\ UNCHANGED <<ord, relation, op, work, final, steps, cover, out>>

\* decompose_to_4nf after its call of decompose_to_bcnf has returned `result`
Begin4NF ==
    /\ pc = "bcnf_done" /\ op = "4nf"
    /\ LET original_form == determine_normal_form(NormalFormAnalyzer(relation, ord)).form
       IN IF relation.mvds = <<>>
          THEN /\ result' = [result EXCEPT !.original_form = original_form,
                                           !.target_form = FOURTH_NF]
               /\ pc' = "done"
               /\ UNCHANGED <<work, final, steps>>
          ELSE /\ result' = [NoResult EXCEPT !.original_form = original_form]
               /\ steps' = result.steps
               /\ work' = result.decomposed_relations
               /\ final' = <<>>
               /\ pc' = "mvdloop"
    /\ UNCHANGED <<ord, relation, op, cover, out>>

Iter4NF ==
    /\ pc = "mvdloop" /\ op = "4nf" /\ work # <<>>
    /\ Len(steps) < MaxSplits
    /\ LET current_rel == Head(work)
           rest == Tail(work)
           vm == violating_mvds(current_rel, relation.mvds)
       IN IF vm = <<>>
          THEN /\ final' = Append(final, current_rel)
               /\ work' = rest
               /\ UNCHANGED steps
          ELSE /\ steps' = Append(steps,
                       DecompositionStep(current_rel, Split4NF(current_rel, vm[1], ord), <<>>))
               /\ work' = rest \o Split4NF(current_rel, vm[1], ord)
               /\ UNCHANGED final
    /\ UNCHANGED <<ord, relation, op, pc, result, cover, out>>

Finish4NF ==
    /\ pc = "mvdloop" /\ op = "4nf" /\ work = <<>>
    /\ LET p == check_dependency_preservation(relation.fds, final)
       IN result' = NormalizationResult(result.original_form, FOURTH_NF, final, steps,
                                        p.preserved, p.lost)
    /\ pc' = "done"
    /\ UNCHANGED <<ord, relation, op, work, final, steps, cover, out>>

\* ----------------------------------------------------------- specifications
\* one specification per entry point of the engine, each over the relations
\* the caller can build
NextCover == AddFD \/ MinimalCover
SpecCover == Init /\ [][NextCover]_vars

NextKeys == AddFD \/ AddMVD \/ FindKeys
SpecKeys == InitAny /\ [][NextKeys]_vars

NextClosure == AddFD \/ Closure
SpecClosure == Init /\ [][NextClosure]_vars

NextAnalyze == AddFD \/ AddMVD \/ Analyze
SpecAnalyze == InitAny /\ [][NextAnalyze]_vars

Next2NF == AddFD \/ AddMVD \/ Begin2NF \/ Iter2NF \/ Finish2NF
Spec2NF == Init /\ [][Next2NF]_vars

Next3NF == AddFD \/ AddMVD \/ Begin3NF \/ Group3NF \/ Key3NF \/ Prune3NF \/ Finish3NF
Spec3NF == Init /\ [][Next3NF]_vars

SpecScenarioB == (Init \/ InitScenarioB) /\ [][Next3NF]_vars

SpecMutual == (Init \/ InitMutual) /\ [][Next3NF]_vars

SpecScenarioB2NF == (Init \/ InitScenarioB) /\ [][Next2NF]_vars

NextBCNF == AddFD \/ AddMVD \/ BeginBCNF("bcnf") \/ IterBCNF \/ FinishBCNF
SpecBCNF == Init /\ [][NextBCNF]_vars

NextSplit == AddFD \/ Begin2NF \/ Iter2NF \/ Finish2NF
             \/ BeginBCNF("bcnf") \/ IterBCNF \/ FinishBCNF
SpecSplit == Init /\ [][NextSplit]_vars

NextOrders == AddFD \/ Begin2NF \/ Iter2NF \/ Finish2NF
              \/ Begin3NF \/ Group3NF \/ Key3NF \/ Prune3NF \/ Finish3NF
              \/ BeginBCNF("bcnf") \/ IterBCNF \/ FinishBCNF \/ Rerun
SpecOrders == Init /\ [][NextOrders]_vars

NextFrame == AddFD \/ Analyze \/ MinimalCover
             \/ Begin2NF \/ Iter2NF \/ Finish2NF
             \/ Begin3NF \/ Group3NF \/ Key3NF \/ Prune3NF \/ Finish3NF
             \/ BeginBCNF("bcnf") \/ IterBCNF \/ FinishBCNF
SpecFrame == Init /\ [][NextFrame]_vars

NextDecomp == Next2NF \/ Next3NF \/ NextBCNF
SpecDecomp == InitAny /\ [][NextDecomp]_vars

\* the decompositions that record steps; decompose_to_bcnf runs as the first
\* statement of decompose_to_4nf, which returns its steps and relations as
\* they are when the relation has no MVDs
NextTrail == AddFD \/ AddMVD \/ Begin2NF \/ Iter2NF \/ Finish2NF
             \/ Begin3NF \/ Group3NF \/ Key3NF \/ Prune3NF \/ Finish3NF
             \/ BeginBCNF("4nf") \/ IterBCNF \/ FinishBCNF
             \/ Begin4NF \/ Iter4NF \/ Finish4NF
SpecTrail == Init /\ [][NextTrail]_vars

Next4NF == AddFD \/ AddMVD \/ BeginBCNF("4nf") \/ IterBCNF \/ FinishBCNF
           \/ Begin4NF \/ Iter4NF \/ Finish4NF
Spec4NF == Init /\ [][Next4NF]_vars

Next == NextCover \/ NextKeys \/ NextClosure \/ NextAnalyze
            \/ Next2NF \/ Next3NF \/ NextBCNF \/ Next4NF
Spec == Init /\ [][Next]_vars

\* =================================================================== claims
\* the attributes an FD list mentions
FDAttrs(fds) == UNION {fds[i].det \cup fds[i].dep : i \in 1..Len(fds)}

CoverDone == op = "cover" /\ pc = "done"

\* C5: for every FD list F with non-empty sides and every attribute subset X
\* drawn from F's attributes, closure(X, minimal_cover(F)) = closure(X, F).
C5_CoverEquivalent ==
    CoverDone =>
        \A X \in SUBSET FDAttrs(relation.fds) :
            closure(X, cover) = closure(X, relation.fds)

\* C6: every FD returned by minimal_cover(F) has a dependent of exactly one
\* attribute, and removing any single attribute from its determinant yields a
\* set whose closure under F no longer contains the dependent.
C6_CoverReduced ==
    CoverDone =>
        \A i \in 1..Len(cover) :
            /\ Cardinality(cover[i].dep) = 1
            /\ \A a \in cover[i].det :
                   ~(cover[i].dep \subseteq closure(cover[i].det \ {a}, relation.fds))

\* C6 witness: minimal_cover returned an FD that no input FD contains as it
\* stands: its determinant was cut down from a larger input determinant
C6_Witness ==
    /\ CoverDone
    /\ \E i \in 1..Len(cover) :
           /\ \E j \in 1..Len(relation.fds) :
                  /\ cover[i].det \subseteq relation.fds[j].det
                  /\ cover[i].det # relation.fds[j].det
                  /\ cover[i].dep \subseteq relation.fds[j].dep
           /\ \A j \in 1..Len(relation.fds) :
                  ~(cover[i].det = relation.fds[j].det
                    /\ cover[i].dep \subseteq relation.fds[j].dep)

Done(o) == op = o /\ pc = "done"

Analyzed(rel) == NormalFormAnalyzer(rel, ord)

\* the relation handed in fails check_3nf
NotIn3NF == check_3nf(Analyzed(relation)) # <<>>

\* the relation handed in fails check_2nf
NotIn2NF == check_2nf(Analyzed(relation)) # <<>>

R1Attrs(st) == st.resulting_relations[1].attrs
R2Attrs(st) == st.resulting_relations[2].attrs

\* C1: for every well-formed relation that is not already in 2NF, every split
\* recorded by decompose_to_2nf is lossless: the attributes shared by the two
\* resulting relations include the split FD's determinant and functionally
\* determine (under the original FDs) all attributes of one of the two.
C1_Lossless2NF ==
    (Done("2nf") /\ NotIn2NF) =>
        \A i \in 1..Len(result.steps) :
            LET st == result.steps[i]
                shared == R1Attrs(st) \cap R2Attrs(st)
            IN /\ st.violated_dependency.det \subseteq shared
               /\ \/ R1Attrs(st) \subseteq closure(shared, relation.fds)
                  \/ R2Attrs(st) \subseteq closure(shared, relation.fds)

\* C2: for every well-formed relation, every split of decompose_to_bcnf on a
\* violating FD X -> Y is lossless: R1 = X \cup Y, both resulting relations
\* contain X, together they keep every attribute of the relation split, and X
\* functionally determines (under the original FDs) every attribute of R1.
C2_LosslessBCNF ==
    op = "bcnf" =>
        \A i \in 1..Len(steps) :
            LET st == steps[i]
                X == st.violated_dependency.det
                Y == st.violated_dependency.dep
            IN /\ R1Attrs(st) = X \cup Y
               /\ X \subseteq R2Attrs(st)
               /\ R1Attrs(st) \cup R2Attrs(st) = st.original_relation.attrs
               /\ R1Attrs(st) \subseteq closure(X, relation.fds)

\* C2 witness: decompose_to_bcnf has returned after two splits, one of them on
\* an FD whose dependent overlaps its determinant
C2_Witness ==
    /\ Done("bcnf")
    /\ Len(result.steps) >= 2
    /\ \E i \in 1..Len(result.steps) :
           result.steps[i].violated_dependency.det
               \cap result.steps[i].violated_dependency.dep # {}

\* C3: for every well-formed relation that is not already in 3NF, the relations
\* returned by decompose_to_3nf cover every original attribute and at least one
\* of them contains a candidate key of the original relation.
C3_Lossless3NF ==
    (Done("3nf") /\ NotIn3NF) =>
        /\ UNION {result.decomposed_relations[i].attrs :
                    i \in 1..Len(result.decomposed_relations)} = relation.attrs
        /\ \E i \in 1..Len(result.decomposed_relations) :
               is_superkey(result.decomposed_relations[i].attrs, relation)

\* C4: for every well-formed relation that is not already in 3NF,
\* decompose_to_3nf preserves every original FD: lost_dependencies is empty and
\* preserved_dependencies holds every FD of the original relation.
C4_Preserved3NF ==
    (Done("3nf") /\ NotIn3NF) =>
        /\ result.lost_dependencies = <<>>
        /\ result.preserved_dependencies = relation.fds

\* C7: for every well-formed relation, every relation returned by
\* decompose_to_bcnf passes check_bcnf() of an analyzer built on it.
C7_ResultsInBCNF ==
    Done("bcnf") =>
        \A i \in 1..Len(result.decomposed_relations) :
            check_bcnf(Analyzed(result.decomposed_relations[i])) = <<>>

\* C7 witness: decompose_to_bcnf has split and returned three relations
C7_Witness ==
    /\ Done("bcnf")
    /\ Len(result.decomposed_relations) >= 3
    /\ check_bcnf(Analyzed(relation)) # <<>>

\* C8: for every well-formed relation, every relation returned by
\* decompose_to_3nf passes check_3nf(), and therefore check_2nf(), of an
\* analyzer built on it with its projected FDs.
C8_ResultsIn3NF ==
    Done("3nf") =>
        \A i \in 1..Len(result.decomposed_relations) :
            /\ check_3nf(Analyzed(result.decomposed_relations[i])) = <<>>
            /\ check_2nf(Analyzed(result.decomposed_relations[i])) = <<>>

\* C8 witness: the synthesis ran on a relation that fails check_3nf and
\* returned at least two relations, one of them with an FD of its own
C8_Witness ==
    /\ Done("3nf") /\ NotIn3NF
    /\ Len(result.decomposed_relations) >= 2
    /\ \E i \in 1..Len(result.decomposed_relations) :
           result.decomposed_relations[i].fds # <<>>

\* C9: for every well-formed relation, every relation returned by
\* decompose_to_2nf passes check_2nf(): none of its FDs has a non-prime
\* dependent attribute and a determinant that is a proper subset of one of
\* that relation's candidate keys.
C9_ResultsIn2NF ==
    Done("2nf") =>
        \A i \in 1..Len(result.decomposed_relations) :
            LET an == Analyzed(result.decomposed_relations[i])
            IN /\ check_2nf(an) = <<>>
               /\ \A j \in 1..Len(an.relation.fds) :
                      ~(/\ an.relation.fds[j].dep \cap an.non_prime_attributes # {}
                        /\ \E k \in 1..Len(an.candidate_keys) :
                               /\ an.relation.fds[j].det \subseteq an.candidate_keys[k]
                               /\ an.relation.fds[j].det # an.candidate_keys[k])

\* C9 witness: decompose_to_2nf split a relation that fails check_2nf twice
C9_Witness ==
    /\ Done("2nf") /\ NotIn2NF
    /\ Len(result.steps) >= 2

\* an MVD of the original relation is a live violation in rel
LiveViolation(mvd, rel) ==
    /\ mvd.det \subseteq rel.attrs
    /\ mvd.dep \cap rel.attrs # {}
    /\ (rel.attrs \ mvd.det) \ (mvd.dep \cap rel.attrs) # {}
    /\ closure(mvd.det, rel.fds) # rel.attrs

\* C10: for every well-formed relation on which decompose_to_4nf returns,
\* every returned relation passes check_bcnf() and check_4nf(), and no MVD of
\* the original relation whose determinant lies inside a returned relation is
\* a live violation there.
C10_ResultsIn4NF ==
    Done("4nf") =>
        \A i \in 1..Len(result.decomposed_relations) :
            /\ check_bcnf(Analyzed(result.decomposed_relations[i])) = <<>>
            /\ check_4nf(Analyzed(result.decomposed_relations[i])) = <<>>
            /\ \A m \in 1..Len(relation.mvds) :
                   ~LiveViolation(relation.mvds[m], result.decomposed_relations[i])

\* C10 witness: decompose_to_4nf returned after a split on a violating MVD
\* that followed a split on a violating FD
C10_Witness ==
    /\ Done("4nf")
    /\ \E i \in 1..Len(result.steps) : result.steps[i].violated_dependency # <<>>
    /\ \E i \in 1..Len(result.steps) : result.steps[i].violated_dependency = <<>>

\* ------------------------------------------------------------ C11, C12
KeysDone == op = "keys" /\ pc = "done"

\* C11: for every well-formed relation, every set returned by
\* find_candidate_keys is a superkey of the relation and no returned set is a
\* proper superset of another returned set.
C11_KeysAreMinimalSuperkeys ==
    KeysDone =>
        LET keys == out.candidate_keys
        IN /\ \A i \in 1..Len(keys) : closure(keys[i], relation.fds) = relation.attrs
           /\ \A i, j \in 1..Len(keys) :
                  ~(keys[j] \subseteq keys[i] /\ keys[j] # keys[i])

\* C11 witness: find_candidate_keys went through the combination loop and
\* returned several keys
C11_Witness ==
    /\ KeysDone
    /\ Len(out.candidate_keys) >= 2

\* the minimal superkeys of a relation, by definition
MinimalSuperkeys(rel) ==
    {K \in SUBSET rel.attrs :
        /\ closure(K, rel.fds) = rel.attrs
        /\ \A a \in K : closure(K \ {a}, rel.fds) # rel.attrs}

\* must_have of find_candidate_keys: the attributes on no right-hand side
MustHave(rel) ==
    rel.attrs \ UNION {rel.fds[i].dep : i \in 1..Len(rel.fds)}

\* C12: for every well-formed relation, find_candidate_keys and find_all_keys
\* return the same set of attribute sets, that set is the set of all minimal
\* superkeys, and when left_only \cup not_in_fds is a superkey it is the single
\* key returned.
C12_KeysAgree ==
    KeysDone =>
        /\ SeqToSet(out.candidate_keys) = SeqToSet(out.all_keys)
        /\ SeqToSet(out.candidate_keys) = MinimalSuperkeys(relation)
        /\ closure(MustHave(relation), relation.fds) = relation.attrs
               => out.candidate_keys = << MustHave(relation) >>

\* C12 witness: the brute-force search returned several composite keys on a
\* relation whose must-have set is no superkey
C12_Witness ==
    /\ KeysDone
    /\ Len(out.all_keys) >= 2
    /\ \A i \in 1..Len(out.all_keys) : Cardinality(out.all_keys[i]) >= 2
    /\ closure(MustHave(relation), relation.fds) # relation.attrs

\* ------------------------------------------------------------ C13, C20
AnalyzeDone == op = "analyze" /\ pc = "done"

\* C13: determine_normal_form returns the last level whose check passed when
\* the checks are taken in the order 1NF, 2NF, 3NF, BCNF, 4NF up to the first
\* one that fails (UNNORMALIZED if check_1nf fails, FOURTH_NF if all pass), and
\* its violation list is empty exactly when FOURTH_NF is returned.
C13_FormIsLastPassed ==
    AnalyzeDone =>
        /\ out.form =
               IF out.check_1nf # <<>> THEN UNNORMALIZED
               ELSE IF out.check_2nf # <<>> THEN FIRST_NF
               ELSE IF out.check_3nf # <<>> THEN SECOND_NF
               ELSE IF out.check_bcnf # <<>> THEN THIRD_NF
               ELSE IF out.check_4nf # <<>> THEN BCNF
               ELSE FOURTH_NF
        /\ (out.violations = <<>>) <=> (out.form = FOURTH_NF)

\* C13 witness: the walk passed 1NF, 2NF and 3NF and stopped at BCNF
C13_Witness ==
    /\ AnalyzeDone
    /\ out.form = THIRD_NF
    /\ out.check_3nf = <<>>
    /\ out.check_bcnf # <<>>

\* C20: if every candidate key of a relation has exactly one attribute,
\* check_2nf returns (True, []) whatever FDs the relation declares.
C20_SingleAttributeKeys ==
    (AnalyzeDone /\ \A i \in 1..Len(out.candidate_keys) :
                        Cardinality(out.candidate_keys[i]) = 1)
        => out.check_2nf = <<>>

\* C20 witness: every key has one attribute and the relation declares an FD
\* that check_3nf reports
C20_Witness ==
    /\ AnalyzeDone
    /\ \A i \in 1..Len(out.candidate_keys) : Cardinality(out.candidate_keys[i]) = 1
    /\ out.check_2nf = <<>>
    /\ out.check_3nf # <<>>

\* ------------------------------------------------------------ C17, C18
ClosureDone == op = "closure" /\ pc = "done"

\* C17: for every attribute set X and FD list F, closure(closure(X, F), F) =
\* closure(X, F), and closure(X, F) contains X.
C17_ClosureIdempotent ==
    ClosureDone =>
        /\ out.again = out.closure
        /\ out.X \subseteq out.closure

\* C17 witness: a closure that needed more than one pass over the FD list
C17_Witness ==
    /\ ClosureDone
    /\ out.closure # out.X
    /\ closurePass(out.X, relation.fds) # out.closure

\* C18: for every FD list F and attribute sets X, Y with X a subset of Y,
\* closure(X, F) is a subset of closure(Y, F).
C18_ClosureMonotone ==
    ClosureDone =>
        \A Y \in DOMAIN out.above : out.closure \subseteq out.above[Y]

\* C18 witness: X grew under closure and has a proper superset Y whose closure
\* is not all attributes
C18_Witness ==
    /\ ClosureDone
    /\ out.closure # out.X
    /\ \E Y \in DOMAIN out.above : Y # out.X /\ out.above[Y] # Attrs

\* ----------------------------------------------------------------- C14
\* position of a NormalForm member in the declaration order of the enum
LevelOf(form) ==
    CASE form = UNNORMALIZED -> 0
      [] form = FIRST_NF -> 1
      [] form = SECOND_NF -> 2
      [] form = THIRD_NF -> 3
      [] form = BCNF -> 4
      [] form = FOURTH_NF -> 5

\* the level each decomposer aims at
TargetOf(o) ==
    CASE o = "2nf" -> SECOND_NF
      [] o = "3nf" -> THIRD_NF
      [] o = "bcnf" -> BCNF

ReportedForm == determine_normal_form(Analyzed(relation)).form

\* C14: when determine_normal_form reports a level at or above the target
\* (2NF, 3NF, BCNF for decompose_to_2nf, _3nf, _bcnf) the decomposer returns
\* the input relation alone, no steps, no lost dependency and every FD of the
\* input as preserved; when the reported level is below the target, steps is
\* non-empty.
C14_NoOpAtOrAboveTarget ==
    \A o \in {"2nf", "3nf", "bcnf"} :
        Done(o) =>
            IF LevelOf(ReportedForm) >= LevelOf(TargetOf(o))
            THEN /\ result.decomposed_relations = << relation >>
                 /\ result.steps = <<>>
                 /\ result.lost_dependencies = <<>>
                 /\ \A i \in 1..Len(relation.fds) :
                        InSeq(relation.fds[i], result.preserved_dependencies)
            ELSE result.steps # <<>>

\* ----------------------------------------------------------------- C15
\* Scenario A: R(a, b, c, d) with a -> b and c -> d (attributes numbered 1..4)
ScenarioA == Relation({1, 2, 3, 4}, << FD({1}, {2}), FD({3}, {4}) >>, <<>>)

ScenarioADone == Done("2nf") /\ relation = ScenarioA

\* the attribute sets of the relations returned
ResultAttrs == {result.decomposed_relations[i].attrs : i \in 1..Len(result.decomposed_relations)}

\* what Scenario A states apart from the relations returned: the only
\* candidate key is {a, c}, the reported form is 1NF with both FDs violating
\* 2NF, every returned relation passes check_2nf and nothing is lost
ScenarioACommon ==
    /\ Analyzed(relation).candidate_keys = << {1, 3} >>
    /\ result.original_form = FIRST_NF
    /\ Len(check_2nf(Analyzed(relation))) = 2
    /\ \A i \in 1..Len(result.decomposed_relations) :
           check_2nf(Analyzed(result.decomposed_relations[i])) = <<>>
    /\ result.lost_dependencies = <<>>

\* C15 as stated: for Scenario A the only candidate key is {a, c}, the form
\* is 1NF, and decompose_to_2nf yields the two relations {a, b} and {c, d}
\* (possibly further split), each passing check_2nf, with nothing lost.
C15_ScenarioATwoRelations ==
    ScenarioADone =>
        /\ ScenarioACommon
        /\ \A S \in ResultAttrs : S \subseteq {1, 2} \/ S \subseteq {3, 4}
        /\ UNION {S \in ResultAttrs : S \subseteq {1, 2}} = {1, 2}
        /\ UNION {S \in ResultAttrs : S \subseteq {3, 4}} = {3, 4}

\* C15 amended: for Scenario A the only candidate key is {a, c}, the form is
\* 1NF, and decompose_to_2nf returns three relations, {a, b}, {c, d} and the
\* key relation {a, c}, each passing check_2nf, with nothing lost.
C15_ScenarioAThreeRelations ==
    ScenarioADone =>
        /\ ScenarioACommon
        /\ Len(result.decomposed_relations) = 3
        /\ ResultAttrs = {{1, 2}, {3, 4}, {1, 3}}

\* C15 witness: Scenario A was decomposed in two splits
C15_Witness == ScenarioADone /\ Len(result.steps) = 2

\* ----------------------------------------------------------------- C16
ScenarioBDone == Done("3nf") /\ relation = ScenarioB

\* C16: for Scenario B the only candidate key is {KodSotrudnika, KodProekta},
\* check_2nf fails, and decompose_to_3nf returns relations on
\* {KodSotrudnika, ImyaSotrudnika, Otdel}, {Otdel, NachalnikOtdela} and
\* {KodProekta, NazvanieProekta, Budget} plus at most one linking relation
\* {KodSotrudnika, KodProekta}, with every original FD preserved and no lost
\* dependency.
C16_ScenarioB ==
    ScenarioBDone =>
        /\ Analyzed(relation).candidate_keys = << {1, 5} >>
        /\ check_2nf(Analyzed(relation)) # <<>>
        /\ {{1, 2, 3}, {3, 4}, {5, 6, 7}} \subseteq ResultAttrs
        /\ ResultAttrs \subseteq {{1, 2, 3}, {3, 4}, {5, 6, 7}, {1, 5}}
        /\ Len(result.decomposed_relations) = Cardinality(ResultAttrs)
        /\ \A i \in 1..Len(relation.fds) :
               InSeq(relation.fds[i], result.preserved_dependencies)
        /\ result.lost_dependencies = <<>>

\* C16 witness: Scenario B was synthesised and the linking relation was added
C16_Witness ==
    /\ ScenarioBDone
    /\ result.steps # <<>>
    /\ {1, 5} \in ResultAttrs

\* ----------------------------------------------------------------- C19
\* the relations an analyzer or a decomposition loop is looking at: the input
\* and the relations waiting or finished in decompose_to_2nf / _bcnf
LiveRelations == {relation} \cup SeqToSet(work) \cup SeqToSet(final)

\* C19: for every relation and every candidate-key configuration, an FD whose
\* dependent is a subset of its determinant produces no violation in
\* check_2nf, check_3nf or check_bcnf, and no split of decompose_to_2nf or
\* decompose_to_bcnf is made on such an FD.
C19_TrivialNeverViolates ==
    /\ \A rel \in LiveRelations :
           \/ \A i \in 1..Len(rel.fds) : ~(rel.fds[i].dep \subseteq rel.fds[i].det)
           \/ LET an == Analyzed(rel)
              IN \A i \in 1..Len(rel.fds) :
                     rel.fds[i].dep \subseteq rel.fds[i].det =>
                         /\ Check2nfOne(an, rel.fds[i]) = <<>>
                         /\ Check3nfOne(an, rel.fds[i]) = <<>>
                         /\ CheckBcnfOne(an, rel.fds[i]) = <<>>
    /\ \A i \in 1..Len(steps) :
           ~(steps[i].violated_dependency.dep \subseteq steps[i].violated_dependency.det)

\* C19 witness: decompose_to_bcnf split a relation whose first FD has its
\* dependent inside a determinant that is no superkey
C19_Witness ==
    /\ Done("bcnf")
    /\ result.steps # <<>>
    /\ relation.fds[1].dep \subseteq relation.fds[1].det
    /\ ~is_superkey(relation.fds[1].det, relation)

\* ----------------------------------------------------------------- C21
\* the attribute sets of the relations of a result
AttrSetsOf(res) == {res.decomposed_relations[i].attrs : i \in 1..Len(res.decomposed_relations)}

\* a decomposer has returned for the second time on the same relation
RerunDone ==
    /\ pc = "done"
    /\ DOMAIN out # {}
    /\ out.op = op
    /\ out.relation = relation

\* C21: for a fixed input relation the set of attribute sets of
\* decomposed_relations and the preserved and lost FD lists returned by a
\* decomposer are the same whatever order the attribute sets are iterated in.
C21_OrderIndependent ==
    RerunDone =>
        /\ AttrSetsOf(result) = AttrSetsOf(out.result)
        /\ result.preserved_dependencies = out.result.preserved_dependencies
        /\ result.lost_dependencies = out.result.lost_dependencies

\* ----------------------------------------------------------------- C22
\* References to set objects: the determinant of the i-th FD of the input
\* relation, or an object created during the call.
FreshRef == <<"fresh", 0>>
FDDetRef(i) == <<"fd_det", i>>

\* variant of copy that returns the object it was given
copyAlias(ref) == ref

\* attributes.copy() at the head of closure: a new set object
copy(ref) == FreshRef

\* closure.update(new_attrs): the in-place additions closure makes, and the
\* object they are made to, when called on the set object ref holding attributes
closureWrites(ref, attributes, fds) ==
    IF closure(attributes, fds) = attributes THEN {}
    ELSE {[ref |-> copy(ref), add |-> closure(attributes, fds) \ attributes]}

\* is_superkey(fd.determinant, rel) for the non-trivial FDs of rel (check_3nf,
\* check_bcnf, and the scan of decompose_to_bcnf on the input relation)
FDSuperkeyWrites(rel) ==
    UNION {closureWrites(FDDetRef(i), rel.fds[i].det, rel.fds) :
             i \in {j \in 1..Len(rel.fds) : ~is_trivial(rel.fds[j])}}

\* closure(fd.determinant, all_decomposed_fds) for every FD of the input
PreservationWrites(decomposed_relations) ==
    UNION {closureWrites(FDDetRef(i), relation.fds[i].det,
                         FlattenSeq([g \in 1..Len(decomposed_relations) |->
                                        decomposed_relations[g].fds])) :
             i \in 1..Len(relation.fds)}

\* the in-place additions made by the call that has returned
InputWrites ==
    LET an == Analyzed(relation)
        checks == IF op = "cover" \/ check_1nf(an) # <<>>
                  THEN {}
                  ELSE IF op = "analyze" \/ check_2nf(an) = <<>>
                       THEN FDSuperkeyWrites(relation) ELSE {}
        scans == IF op = "bcnf" /\ ~StrGE(result.original_form, BCNF)
                 THEN FDSuperkeyWrites(relation) ELSE {}
        kept == IF op \in {"2nf", "3nf", "bcnf"} /\ ~StrGE(result.original_form, result.target_form)
                THEN PreservationWrites(result.decomposed_relations) ELSE {}
    IN checks \cup scans \cup kept

\* a relation after the additions of W have been made to its objects
ApplyWrites(rel, W) ==
    [rel EXCEPT
       !.fds = [i \in 1..Len(rel.fds) |->
                   [rel.fds[i] EXCEPT
                      !.det = @ \cup UNION {w.add : w \in {x \in W : x.ref = FDDetRef(i)}}]]]

RECURSIVE Weight(_)
Weight(w) ==
    IF w = <<>> THEN 0
    ELSE 3 ^ Cardinality(Head(w).attrs) + Weight(Tail(w))

\* both relations of a step have strictly fewer attributes than the relation
\* that was split
StrictlySmaller(st) ==
    \A k \in 1..Len(st.resulting_relations) :
        Cardinality(st.resulting_relations[k].attrs)
            < Cardinality(st.original_relation.attrs)

\* C23: in decompose_to_2nf and decompose_to_bcnf every split produces two
\* relations that each have strictly fewer attributes than the relation being
\* split, so every loop iteration lowers the weight of the work-list and the
\* work-list drains.
C23_WorkListDrains ==
    [][(pc = "loop" /\ op \in {"2nf", "bcnf"}) =>
           /\ Len(steps') > Len(steps) => StrictlySmaller(steps'[Len(steps')])
           /\ pc' = "loop" => Weight(work') < Weight(work)]_vars

\* C23 witness: a BCNF work-list drained after two splits, the second one of
\* a relation the first split produced
C23_Witness ==
    /\ pc = "done"
    /\ op = "bcnf"
    /\ Len(result.steps) = 2
    /\ result.steps[2].original_relation # relation

\* ----------------------------------------------------------------- C24
\* C24: in decompose_to_4nf every split on a violating MVD produces two
\* relations that each have strictly fewer attributes than the relation being
\* split, so every iteration of the MVD loop lowers the weight of the
\* work-list and the loop terminates.
C24_MVDLoopDrains ==
    [][(pc = "mvdloop" /\ pc' = "mvdloop") =>
           /\ Len(steps') > Len(steps) => StrictlySmaller(steps'[Len(steps')])
           /\ Weight(work') < Weight(work)]_vars

\* ----------------------------------------------------------------- C25
\* the attributes covered by a list of relations
AttrUnion(rels) == UNION {rels[i].attrs : i \in 1..Len(rels)}

\* C25: after the redundancy elimination of decompose_to_3nf (work holds the
\* relations before it, final the relations after it) every dropped relation
\* has its attributes inside a relation that remains, and the relations that
\* remain cover the same attributes as before.
C25_DroppedAreCovered ==
    (op = "3nf" /\ pc = "check") =>
        /\ \A i \in 1..Len(work) :
               (\A k \in 1..Len(final) : final[k] # work[i]) =>
                   \E k \in 1..Len(final) : work[i].attrs \subseteq final[k].attrs
        /\ AttrUnion(final) = AttrUnion(work)

\* ----------------------------------------------------------------- C26
\* the elements of a list
Range(seq) == {seq[i] : i \in 1..Len(seq)}

\* G: the FDs of all relations of decomposed_relations, pooled
PooledFDs(res) ==
    FlattenSeq([i \in 1..Len(res.decomposed_relations) |-> res.decomposed_relations[i].fds])

\* C26: in the result of a decomposition that took at least one step,
\* preserved_dependencies and lost_dependencies split the FD list of the
\* original relation, each keeping the original order, and an original FD
\* X -> Y is preserved exactly when Y lies in the closure of X under the pooled
\* FDs of the final relations.
C26_PreservedLostPartition ==
    (pc = "done" /\ op \in {"2nf", "3nf", "bcnf", "4nf"} /\ result.steps # <<>>) =>
        LET G == PooledFDs(result)
            P == Range(result.preserved_dependencies)
            L == Range(result.lost_dependencies)
        IN /\ P \cup L = Range(relation.fds)
           /\ P \cap L = {}
           /\ result.preserved_dependencies = SelectSeq(relation.fds, LAMBDA fd : fd \in P)
           /\ result.lost_dependencies = SelectSeq(relation.fds, LAMBDA fd : fd \in L)
           /\ \A i \in 1..Len(relation.fds) :
                  relation.fds[i] \in P <=>
                      relation.fds[i].dep \subseteq closure(relation.fds[i].det, G)

\* C26 witness: a decomposition returned with one FD preserved and one lost
C26_Witness ==
    /\ pc = "done"
    /\ result.steps # <<>>
    /\ result.preserved_dependencies # <<>>
    /\ result.lost_dependencies # <<>>

\* ----------------------------------------------------------------- C27
\* C27: for Scenario B the relations returned by decompose_to_2nf are not all
\* in 3NF: some returned relation fails check_3nf (the transitive dependency
\* KodSotrudnika -> Otdel -> NachalnikOtdela).
C27_ScenarioB2NFNot3NF ==
    (Done("2nf") /\ relation = ScenarioB) =>
        \E i \in 1..Len(result.decomposed_relations) :
            check_3nf(Analyzed(result.decomposed_relations[i])) # <<>>

\* ----------------------------------------------------------------- C28
\* NormalizationResult.is_lossless
is_lossless(res) == Len(res.lost_dependencies) = 0

\* the tableau of the lossless-join test: row i stands for relation i and holds
\* 0 (the distinguished symbol) in the columns of its attributes and the
\* symbol i elsewhere
Tableau(rels, attrs) ==
    [i \in 1..Len(rels) |-> [a \in attrs |-> IF a \in rels[i].attrs THEN 0 ELSE i]]

\* the places where an FD forces two different symbols of a column to be equal
ChaseSteps(T, fds) ==
    {<<f, i, j, a>> \in (1..Len(fds)) \X (1..Len(T)) \X (1..Len(T)) \X UNION {fds[f].dep : f \in 1..Len(fds)} :
        /\ \A x \in fds[f].det : T[i][x] = T[j][x]
        /\ a \in fds[f].dep
        /\ T[i][a] < T[j][a]}

\* the chase: symbols are equated (the larger replaced by the smaller in the
\* whole column) until no FD applies
RECURSIVE Chase(_, _)
Chase(T, fds) ==
    IF ChaseSteps(T, fds) = {} THEN T
    ELSE LET s == CHOOSE s \in ChaseSteps(T, fds) : TRUE
             lo == T[s[2]][s[4]]
             hi == T[s[3]][s[4]]
         IN Chase([r \in 1..Len(T) |->
                      [T[r] EXCEPT ![s[4]] = IF @ = hi THEN lo ELSE @]], fds)

\* the natural join of rels reconstructs every instance of rel that satisfies
\* the FDs of rel: the chased tableau has a row of distinguished symbols
JoinLossless(rels, rel) ==
    LET T == Chase(Tableau(rels, rel.attrs), rel.fds)
    IN \E i \in 1..Len(rels) : \A a \in rel.attrs : T[i][a] = 0

\* C28: for every result of a decompose_to_* call is_lossless() is True
\* exactly when the natural join of decomposed_relations reconstructs every
\* instance of the original relation that satisfies the original FDs.
C28_IsLosslessExact ==
    (pc = "done" /\ op \in {"2nf", "3nf", "bcnf"}) =>
        (is_lossless(result) <=> JoinLossless(result.decomposed_relations, relation))

\* ----------------------------------------------------------------- C29
\* C29: the checks of one analyzer are nested: check_4nf passing implies
\* check_bcnf passing, check_bcnf implies check_3nf, check_3nf implies
\* check_2nf and check_2nf implies check_1nf; hence determine_normal_form
\* reports BCNF or 4NF for a relation on which check_bcnf passes.
C29_ChecksNested ==
    AnalyzeDone =>
        /\ out.check_4nf = <<>> => out.check_bcnf = <<>>
        /\ out.check_bcnf = <<>> => out.check_3nf = <<>>
        /\ out.check_3nf = <<>> => out.check_2nf = <<>>
        /\ out.check_2nf = <<>> => out.check_1nf = <<>>
        /\ out.check_bcnf = <<>> => out.form \in {BCNF, FOURTH_NF}

\* C29 witness: check_bcnf passes on a relation with a non-trivial FD
C29_Witness ==
    /\ AnalyzeDone
    /\ out.check_bcnf = <<>>
    /\ \E i \in 1..Len(relation.fds) : ~is_trivial(relation.fds[i])

\* ----------------------------------------------------------------- C30
\* a list of relations as a bag: equal relations are counted, not merged
RECURSIVE BagOf(_)
BagOf(seq) ==
    IF seq = <<>> THEN EmptyBag
    ELSE SetToBag({Head(seq)}) (+) BagOf(Tail(seq))

\* the relations available for decomposition after the first n steps: the
\* input relation and the resulting relations of those steps
Produced(stps, n) ==
    SetToBag({relation})
        (+) BagOf(FlattenSeq([i \in 1..n |-> stps[i].resulting_relations]))

\* the relations the first n steps decomposed
Decomposed(stps, n) == BagOf([i \in 1..n |-> stps[i].original_relation])

\* C30: in a result of decompose_to_2nf, decompose_to_bcnf (met here as the
\* result decompose_to_4nf hands on for a relation without MVDs) or
\* decompose_to_4nf every step decomposes the input relation or a resulting relation of an
\* earlier step that no earlier step has decomposed, decomposed_relations
\* are exactly the relations (input or step results) that no step decomposes,
\* and len(decomposed_relations) = len(steps) + 1; a decompose_to_3nf that is
\* not a no-op records exactly one step.
C30_AuditTrail ==
    /\ (pc = "done" /\ op \in {"2nf", "4nf"}) =>
           LET stps == result.steps
               n == Len(stps)
           IN /\ \A i \in 1..n :
                     CopiesIn(stps[i].original_relation, Produced(stps, i - 1))
                         > CopiesIn(stps[i].original_relation, Decomposed(stps, i - 1))
              /\ Produced(stps, n) = Decomposed(stps, n) (+) BagOf(result.decomposed_relations)
              /\ Len(result.decomposed_relations) = n + 1
    /\ (pc = "done" /\ op = "3nf" /\ ~StrGE(result.original_form, THIRD_NF)) =>
           Len(result.steps) = 1

\* C30 witness: decompose_to_4nf returned a trail that holds a BCNF split and
\* an MVD split
C30_Witness ==
    /\ Done("4nf")
    /\ \E i, j \in 1..Len(result.steps) :
           /\ i < j
           /\ result.steps[i].violated_dependency # <<>>
           /\ result.steps[j].violated_dependency = <<>>

====
